---- MODULE Spec2Model ----
(***************************************************************************)
(* A model of the redirect service of main.go: the TTL cache              *)
(* (cachedURLMap.Get / Refresh), the row transformation (urlMap), the      *)
(* path resolver (server.findRedirect, prepRedirect) and the HTTP handler  *)
(* (server.redirect), served by concurrent request workers.                *)
(*                                                                         *)
(* Strings are sequences of one-character strings.  The character "H"      *)
(* stands for the scheme and host "https://example.com" of a destination.  *)
(* A *url.URL is a pointer: the cache holds references into a heap of URL  *)
(* objects, and prepRedirect writes through the reference it is handed.    *)
(* Those writes take no lock; the path update (lines 197-203) is one step  *)
(* and the query update (lines 205-209) another.                           *)
(* The RWMutex is modelled by its holder(s); a blocked Lock does not hold  *)
(* back later RLocks, which only adds behaviours.                          *)
(***************************************************************************)
EXTENDS Integers, Sequences, FiniteSets, TLC

\* ------------------------------------------------------------------ bounds
MaxRequests == 2
\* the longest table drawn for the row transformation
MaxRows == 2

\* ------------------------------------------------------ program constants
\* ttl := time.Second * 5, in seconds
TTL == 5
\* the zero time.Time of a cachedURLMap built without lastUpdate
ZeroTime == -1
\* time.Since saturates at the maximum Duration for the zero time
MaxDuration == 1000000

StatusMovedPermanently == 301
StatusNotFound == 404
StatusInternalServerError == 500

\* ----------------------------------------------------------------- strings
Slash == "/"

\* the order of the characters, as bytes compare in sort.Strings
Ord(ch) ==
    CASE ch = "%" -> 1 [] ch = "&" -> 2 [] ch = "/" -> 3 [] ch = "1" -> 4
      [] ch = "2" -> 5 [] ch = "=" -> 6 [] ch = "?" -> 7 [] ch = "A" -> 8
      [] ch = "H" -> 9 [] ch = "a" -> 10 [] ch = "b" -> 11 [] ch = "c" -> 12
      [] ch = "q" -> 13 [] ch = "x" -> 14 [] ch = "z" -> 15
      [] OTHER -> 16

\* strings.ToLower
ToLower(s) == [i \in 1..Len(s) |-> IF s[i] = "A" THEN "a" ELSE s[i]]

\* strings.HasPrefix / strings.HasSuffix / strings.TrimPrefix
HasPrefix(s, p) == Len(s) >= Len(p) /\ SubSeq(s, 1, Len(p)) = p
HasSuffix(s, p) == Len(s) >= Len(p) /\ SubSeq(s, Len(s) - Len(p) + 1, Len(s)) = p
TrimPrefix(s, p) == IF HasPrefix(s, p) THEN SubSeq(s, Len(p) + 1, Len(s)) ELSE s

\* strings.Split(s, sep) for a one-character separator: always >= 1 element
Split(s, sep) ==
    LET RECURSIVE F(_, _, _)
        F(i, cur, out) ==
            IF i > Len(s) THEN Append(out, cur)
            ELSE IF s[i] = sep THEN F(i + 1, <<>>, Append(out, cur))
            ELSE F(i + 1, Append(cur, s[i]), out)
    IN F(1, <<>>, <<>>)

\* strings.Join(elems, sep)
Join(elems, sep) ==
    LET RECURSIVE F(_)
        F(i) == IF i > Len(elems) THEN <<>>
                ELSE IF i = 1 THEN elems[1] \o F(2)
                ELSE <<sep>> \o elems[i] \o F(i + 1)
    IN F(1)

\* the index of the first occurrence of ch in s, 0 if none (strings.Index)
Index(s, ch) ==
    LET hits == {i \in 1..Len(s) : s[i] = ch}
    IN IF hits = {} THEN 0 ELSE CHOOSE i \in hits : \A j \in hits : i <= j

\* s < t as byte strings
StrLess(s, t) ==
    LET RECURSIVE F(_)
        F(i) == IF i > Len(t) THEN FALSE
                ELSE IF i > Len(s) THEN TRUE
                ELSE IF s[i] = t[i] THEN F(i + 1)
                ELSE Ord(s[i]) < Ord(t[i])
    IN F(1)

\* ---------------------------------------------------------------- net/url
\* url.Values: a map from key to the list of its values
EmptyValues == [k \in {} |-> <<>>]

\* Values.Add(key, value)
ValuesAdd(vals, k, val) ==
    [x \in DOMAIN vals \cup {k} |->
        IF x = k THEN (IF k \in DOMAIN vals THEN Append(vals[k], val) ELSE <<val>>)
        ELSE vals[x]]

\* Values.Get(key): the first value, "" if none
ValuesGet(vals, k) ==
    IF k \in DOMAIN vals /\ Len(vals[k]) > 0 THEN vals[k][1] ELSE <<>>

\* url.ParseQuery: "k=v&k2=v2" to Values; empty pieces are skipped
ParseQuery(raw) ==
    LET parts == Split(raw, "&")
        RECURSIVE F(_, _)
        F(i, vals) ==
            IF i > Len(parts) THEN vals
            ELSE IF parts[i] = <<>> THEN F(i + 1, vals)
            ELSE LET eq == Index(parts[i], "=")
                     k  == IF eq = 0 THEN parts[i] ELSE SubSeq(parts[i], 1, eq - 1)
                     val == IF eq = 0 THEN <<>>
                            ELSE SubSeq(parts[i], eq + 1, Len(parts[i]))
                 IN F(i + 1, ValuesAdd(vals, k, val))
    IN F(1, EmptyValues)

\* Values.Encode: "k=v" pieces joined by "&", sorted by key
Encode(vals) ==
    LET RECURSIVE Keys(_)
        Keys(S) == IF S = {} THEN <<>>
                   ELSE LET m == CHOOSE k \in S : \A o \in S \ {k} : StrLess(k, o)
                        IN <<m>> \o Keys(S \ {m})
        keys == Keys(DOMAIN vals)
        RECURSIVE Pieces(_, _)
        Pieces(i, j) ==
            IF i > Len(keys) THEN <<>>
            ELSE IF j > Len(vals[keys[i]]) THEN Pieces(i + 1, 1)
            ELSE <<keys[i] \o <<"=">> \o vals[keys[i]][j]>> \o Pieces(i, j + 1)
    IN Join(Pieces(1, 1), "&")

\* url.Parse: [ok, u]; a "%" is an invalid escape, "H" is scheme and host
ParseURL(s) ==
    LET qm   == Index(s, "?")
        rest == IF qm = 0 THEN s ELSE SubSeq(s, 1, qm - 1)
        raw  == IF qm = 0 THEN <<>> ELSE SubSeq(s, qm + 1, Len(s))
        host == IF HasPrefix(rest, <<"H">>) THEN <<"H">> ELSE <<>>
    IN [ok |-> Index(s, "%") = 0,
        u  |-> [Host |-> host, Path |-> TrimPrefix(rest, <<"H">>), RawQuery |-> raw]]

\* URL.String: a path without a leading "/" gets one after a host
URLString(u) ==
    u.Host
    \o (IF u.Host # <<>> /\ u.Path # <<>> /\ u.Path[1] # "/" THEN <<"/">> ELSE <<>>)
    \o u.Path
    \o (IF u.RawQuery = <<>> THEN <<>> ELSE <<"?">> \o u.RawQuery)

\* URL.Query
URLQuery(u) == ParseQuery(u.RawQuery)


\* ------------------------------------------------------------ the sheet
\* a cell of a row ([]interface{}): a string, or a value of another type
Str(s) == [t |-> "string", s |-> s]
Other == [t |-> "other", s |-> <<>>]

\* the tables the provider may return (resp.Values)
Sheet1 == << <<Str(<<"a", "/", "b">>), Str(<<"H", "/", "x">>)>> >>
Sheet2 ==
    << <<Str(<<"A">>), Str(<<"H", "/", "x">>)>>,
       <<Str(<<"b">>)>>,
       <<Other, Str(<<"H">>)>>,
       <<Str(<<"c">>), Str(<<"%">>)>>,
       <<Str(<<>>), Str(<<"H">>)>>,
       <<Str(<<"x">>), Other>>,
       <<Str(<<"a">>), Str(<<"H">>)>> >>
Sheet3 ==
    << <<Str(<<"a">>), Str(<<"H", "/", "?", "z", "=", "1", "&", "b", "=", "2">>)>>,
       <<Str(<<"a", "/", "b">>), Str(<<"H", "/", "x">>)>> >>
Sheets == {Sheet1, Sheet2, Sheet3}

\* the requests: req.URL.Path and req.URL.RawQuery
Requests ==
    { [path |-> <<"/", "a", "/", "b", "/", "c">>, rawQuery |-> <<"q", "=", "1">>],
      [path |-> <<"/", "a", "/", "b">>,
       rawQuery |-> <<"q", "=", "1", "&", "q", "=", "2">>],
      [path |-> <<"/", "a">>, rawQuery |-> <<>>],
      [path |-> <<"/", "A">>, rawQuery |-> <<>>],
      [path |-> <<"/", "x">>, rawQuery |-> <<"q", "=", "1">>],
      [path |-> <<"/">>, rawQuery |-> <<>>] }

\* the environment: GOOGLE_SHEET_ID and SHEET_NAME, set or not
Configs ==
    { [googleSheetsID |-> <<"i">>, sheetName |-> <<"s">>],
      [googleSheetsID |-> <<>>,    sheetName |-> <<"s">>],
      [googleSheetsID |-> <<"i">>, sheetName |-> <<>>] }

\* the request workers: net/http serves each request on its own goroutine;
\* a new request goes to the first worker that is free
Workers == {1, 2}

\* --------------------------------------------------------------- urlMap
EmptyURLMap == [k \in {} |-> <<>>]

\* urlMap with its shortcut handling varied: keepFirst leaves an existing key
\* alone, asIs stores the shortcut without lowercasing it
urlMapVariant(in, keepFirst, asIs) ==
    LET RECURSIVE F(_, _)
        F(i, out) ==
            IF i > Len(in) THEN out
            ELSE LET row == in[i] IN
                 IF Len(row) < 2 THEN F(i + 1, out)
                 ELSE IF row[1].t # "string" \/ row[1].s = <<>> THEN F(i + 1, out)
                 ELSE IF row[2].t # "string" \/ row[2].s = <<>> THEN F(i + 1, out)
                 ELSE LET k == IF asIs THEN row[1].s ELSE ToLower(row[1].s)
                          p == ParseURL(row[2].s)
                      IN IF ~p.ok \/ (keepFirst /\ k \in DOMAIN out) THEN F(i + 1, out)
                         ELSE F(i + 1, [x \in DOMAIN out \cup {k} |->
                                           IF x = k THEN p.u ELSE out[x]])
    IN F(1, EmptyURLMap)

\* a transformation in which the first row of a shortcut wins
urlMapFirstWins(in) == urlMapVariant(in, TRUE, FALSE)

\* a transformation that forgets to lowercase the shortcut
urlMapAsIs(in) == urlMapVariant(in, FALSE, TRUE)

\* urlMap: rows to URLMap, invalid rows skipped, a later row overwrites
urlMap(in) ==
    LET RECURSIVE F(_, _)
        F(i, out) ==
            IF i > Len(in) THEN out
            ELSE LET row == in[i] IN
                 IF Len(row) < 2 THEN F(i + 1, out)
                 ELSE IF row[1].t # "string" \/ row[1].s = <<>> THEN F(i + 1, out)
                 ELSE IF row[2].t # "string" \/ row[2].s = <<>> THEN F(i + 1, out)
                 ELSE LET k == ToLower(row[1].s)
                          p == ParseURL(row[2].s)
                      IN IF ~p.ok THEN F(i + 1, out)
                         ELSE F(i + 1, [x \in DOMAIN out \cup {k} |->
                                           IF x = k THEN p.u ELSE out[x]])
    IN F(1, EmptyURLMap)

\* --------------------------------------------------------- prepRedirect
\* a prepRedirect that never inserts the separator
PrepSlashNever(base, addPath) == base

\* if addPath != "" { if !strings.HasSuffix(base.Path, "/") { base.Path += "/" } }
PrepSlashPath(base, addPath) ==
    IF addPath # <<>> /\ ~HasSuffix(base.Path, <<Slash>>)
    THEN [base EXCEPT !.Path = @ \o <<Slash>>]
    ELSE base

\* if addPath != "" { base.Path += addPath }
PrepAddPath(base, addPath) ==
    IF addPath # <<>> THEN [base EXCEPT !.Path = @ \o addPath] ELSE base

\* qs := base.Query(); qs.Add(k, query.Get(k)) for each k; the encoded query is
\* taken from base.Query() again, not from qs
PrepRawQuery(base, query) ==
    LET RECURSIVE AddAll(_, _)
        AddAll(S, qs) ==
            IF S = {} THEN qs
            ELSE LET k == CHOOSE x \in S : TRUE
                 IN AddAll(S \ {k}, ValuesAdd(qs, k, ValuesGet(query, k)))
        qs == AddAll(DOMAIN query, URLQuery(base))
    IN [base EXCEPT !.RawQuery = Encode(URLQuery(base))]

\* --------------------------------------------------------- findRedirect
\* a loop that drops two segments at a time
LoopStepSkip(segs, disc) ==
    LET s2 == SubSeq(segs, 1, Len(segs) - 2)
    IN IF Len(s2) = 0
       THEN [panic |-> TRUE, segments |-> s2, discard |-> disc]
       ELSE [panic |-> FALSE, segments |-> s2, discard |-> <<s2[Len(s2)]>> \o disc]

\* segments = segments[:len(segments)-1]
\* discard = append([]string{segments[len(segments)-1]}, discard...)
\* the index is taken in the shortened slice: out of range when it is empty
LoopStep(segs, disc) ==
    LET s2 == SubSeq(segs, 1, Len(segs) - 1)
    IN IF Len(s2) = 0
       THEN [panic |-> TRUE, segments |-> s2, discard |-> disc]
       ELSE [panic |-> FALSE, segments |-> s2, discard |-> <<s2[Len(s2)]>> \o disc]

\* ------------------------------------------------------- ResponseWriter
NoResponse == [status |-> 0, body |-> <<>>, location |-> <<>>, aborted |-> FALSE]

\* ResponseWriter.WriteHeader: only the first call sets the status
WriteHeader(rw, code) == IF rw.status = 0 THEN [rw EXCEPT !.status = code] ELSE rw

\* fmt.Fprintf(w, ...): an implicit WriteHeader(200) is not needed here, the
\* handler always writes a header first
WriteBody(rw, msg) == [rw EXCEPT !.body = Append(@, msg)]

\* writeError
writeError(rw, code, msg) == WriteBody(WriteHeader(rw, code), msg)

\* the rest of server.redirect once findRedirect returned (nil, err)
RespondError(rw) ==
    LET r1 == writeError(rw, StatusInternalServerError, "failed to find redirect")
    IN WriteBody(WriteHeader(r1, StatusNotFound), "shortcut not found")

\* the rest of server.redirect once findRedirect returned (nil, nil)
RespondNotFound(rw) == WriteBody(WriteHeader(rw, StatusNotFound), "shortcut not found")

\* http.Redirect(w, req, redirTo.String(), http.StatusMovedPermanently)
RespondRedirect(rw, u) ==
    WriteBody(WriteHeader([rw EXCEPT !.location = URLString(u)], StatusMovedPermanently),
              "Moved Permanently")

\* a panic in the handler: net/http recovers it and drops the connection
RespondPanic(rw) == [rw EXCEPT !.aborted = TRUE]


\* ---------------------------------------------------------------- state
VARIABLES
    now,        \* the wall clock, in seconds
    alive,      \* the process runs (log.Fatalf ends it)
    config,     \* sheetsProvider{googleSheetsID, sheetName}
    heap,       \* the URL objects ever stored, one URLMap per refresh
    cv,         \* cachedURLMap.v: the index in heap of the stored map, 0 = nil map
    lastUpdate, \* cachedURLMap.lastUpdate
    writer,     \* sync.RWMutex: the worker holding the write lock, 0 if none
    readers,    \* sync.RWMutex: the workers holding a read lock
    pc,         \* each worker's position in the handler
    req,        \* each worker's request: [path, rawQuery]
    segments,   \* findRedirect: segments
    discard,    \* findRedirect: discard
    got,        \* the *url.URL a worker holds: [g, k], g = 0 for nil
    resp,       \* each worker's ResponseWriter
    served,     \* the number of requests accepted so far
    built,      \* history: the URLMap each refresh built, as built
    input,      \* history: the rows the provider returned last
    tried,      \* history: the lookups of a worker's current request
    rinfo       \* history: the outcome of a worker's last Refresh call

vars == <<now, alive, config, heap, cv, lastUpdate, writer, readers, pc, req,
          segments, discard, got, resp, served, built, input, tried, rinfo>>

cacheVars == <<heap, cv, lastUpdate, built, input>>
lockVars == <<writer, readers>>
localVars == <<req, segments, discard, got, resp, tried>>

NilURL == [g |-> 0, k |-> <<>>]

\* c.v[query]: the pointer stored under query, nil if absent or the map is nil
Lookup(query) ==
    IF cv # 0 /\ query \in DOMAIN heap[cv] THEN [g |-> cv, k |-> query] ELSE NilURL

\* the object a pointer refers to
Deref(ptr) == heap[ptr.g][ptr.k]

\* a clock reading that takes the zero time for the present
SinceZeroFresh(t, clock) == IF t = ZeroTime THEN 0 ELSE clock - t

\* time.Since(t) with the clock at clock
Since(t, clock) == IF t = ZeroTime THEN MaxDuration ELSE clock - t

\* a refresh that already treats the second the TTL ends as stale
WithinTTLStrict(since) == since < TTL

\* a refresh that still trusts the mapping one second after the TTL ended
WithinTTLLax(since) == since <= TTL + 1

\* time.Since(c.lastUpdate) <= c.ttl
WithinTTL(since) == since <= TTL

\* a write lock that only waits for the readers, as a read lock would
CanLockShared == readers = {}

\* RWMutex.Lock can proceed: no writer and no reader holds the lock
CanLock == writer = 0 /\ readers = {}

\* a read of the map without taking the read lock
CanRLockUnlocked == TRUE

\* RWMutex.RLock can proceed: no writer holds the lock
CanRLock == writer = 0

\* the error sheetsProvider.Query returns for the configuration, "" for nil
QueryErr(c) ==
    IF c.googleSheetsID = <<>> THEN "GOOGLE_SHEET_ID not set"
    ELSE IF c.sheetName = <<>> THEN "SHEET_NAME not set"
    ELSE ""

\* the state after main built the server, whatever the provider holds
Constructed ==
    /\ now = 0
    /\ alive = TRUE
    /\ config \in Configs
    /\ heap = <<>>
    /\ cv = 0
    /\ lastUpdate = ZeroTime
    /\ writer = 0
    /\ readers = {}
    /\ pc = [w \in Workers |-> "idle"]
    /\ req = [w \in Workers |-> [path |-> <<>>, rawQuery |-> <<>>]]
    /\ segments = [w \in Workers |-> <<>>]
    /\ discard = [w \in Workers |-> <<>>]
    /\ got = [w \in Workers |-> NilURL]
    /\ resp = [w \in Workers |-> NoResponse]
    /\ served = 0
    /\ built = <<>>
    /\ tried = [w \in Workers |-> <<>>]
    /\ rinfo = [w \in Workers |-> "none"]

Init ==
    /\ Constructed
    /\ input = <<>>

\* server.redirect is entered; findRedirect trims, splits and enters its loop
StartRequest(w, r) ==
    /\ alive
    /\ pc[w] = "idle"
    /\ \A o \in Workers : o < w => pc[o] # "idle"
    /\ served < MaxRequests
    /\ served' = served + 1
    /\ req' = [req EXCEPT ![w] = r]
    /\ LET segs == Split(TrimPrefix(r.path, <<Slash>>), Slash) IN
         /\ segments' = [segments EXCEPT ![w] = segs]
         /\ IF Len(segs) > 0
            THEN /\ pc' = [pc EXCEPT ![w] = "Lock"]
                 /\ resp' = [resp EXCEPT ![w] = NoResponse]
            ELSE /\ pc' = [pc EXCEPT ![w] = "idle"]
                 /\ resp' = [resp EXCEPT ![w] = RespondNotFound(NoResponse)]
    /\ discard' = [discard EXCEPT ![w] = <<>>]
    /\ got' = [got EXCEPT ![w] = NilURL]
    /\ tried' = [tried EXCEPT ![w] = <<>>]
    /\ rinfo' = [rinfo EXCEPT ![w] = "none"]
    /\ UNCHANGED <<now, alive, config, cacheVars, lockVars>>

\* the clock advances by d seconds before it is read; the readings drawn are
\* the first two seconds, the second the TTL ends and the one after it
Instants == {0, 1, TTL, TTL + 1}
Advance(d) == now' = now + d
Elapsed == {t - now : t \in {i \in Instants : i >= now}}

\* Get calls Refresh: c.Lock(); the mapping is fresh; return nil, c.Unlock()
RefreshFresh(w, d) ==
    /\ alive
    /\ pc[w] = "Lock"
    /\ CanLock
    /\ Advance(d)
    /\ WithinTTL(Since(lastUpdate, now + d))
    /\ pc' = [pc EXCEPT ![w] = "RLock"]
    /\ rinfo' = [rinfo EXCEPT ![w] = "noop"]
    /\ UNCHANGED <<alive, config, cacheVars, lockVars, localVars, served>>

\* Get calls Refresh: c.Lock(); the mapping is stale; c.sheet.Query() is called
RefreshStale(w, d) ==
    /\ alive
    /\ pc[w] = "Lock"
    /\ CanLock
    /\ Advance(d)
    /\ ~WithinTTL(Since(lastUpdate, now + d))
    /\ writer' = w
    /\ pc' = [pc EXCEPT ![w] = "Query"]
    /\ rinfo' = [rinfo EXCEPT ![w] = "pending"]
    /\ UNCHANGED <<alive, config, cacheVars, readers, localVars, served>>

\* Query returns an error: Refresh, Get and findRedirect return it, and
\* server.redirect writes the 500 and goes on to the not-found branch
QueryError(w) ==
    /\ alive
    /\ pc[w] = "Query"
    /\ QueryErr(config) # ""
    /\ writer' = 0
    /\ pc' = [pc EXCEPT ![w] = "idle"]
    /\ rinfo' = [rinfo EXCEPT ![w] = "error"]
    /\ resp' = [resp EXCEPT ![w] = RespondError(@)]
    /\ UNCHANGED <<now, alive, config, cacheVars, readers, req, segments, discard,
                   got, tried, served>>

\* Query cannot read the credentials or reach the sheet: log.Fatalf
QueryFatal(w) ==
    /\ alive
    /\ pc[w] = "Query"
    /\ QueryErr(config) = ""
    /\ alive' = FALSE
    /\ rinfo' = [rinfo EXCEPT ![w] = "exit"]
    /\ UNCHANGED <<now, config, cacheVars, lockVars, pc, localVars, served>>

\* Query returns rows: c.v = urlMap(rows); c.lastUpdate = time.Now(); c.Unlock()
QueryRows(w, rows, d) ==
    /\ alive
    /\ pc[w] = "Query"
    /\ QueryErr(config) = ""
    /\ Advance(d)
    /\ heap' = Append(heap, urlMap(rows))
    /\ built' = Append(built, urlMap(rows))
    /\ input' = rows
    /\ cv' = Len(heap) + 1
    /\ lastUpdate' = now'
    /\ writer' = 0
    /\ pc' = [pc EXCEPT ![w] = "RLock"]
    /\ rinfo' = [rinfo EXCEPT ![w] = "ok"]
    /\ UNCHANGED <<alive, config, readers, localVars, served>>

\* Get: c.RLock()
GetRLock(w) ==
    /\ alive
    /\ pc[w] = "RLock"
    /\ CanRLock
    /\ readers' = readers \cup {w}
    /\ pc' = [pc EXCEPT ![w] = "Read"]
    /\ UNCHANGED <<now, alive, config, cacheVars, writer, localVars, served, rinfo>>

\* Get: return c.v[query], c.RUnlock(); findRedirect: a hit goes to
\* prepRedirect, a miss shortens segments and loops, or panics
GetRead(w) ==
    /\ alive
    /\ pc[w] = "Read"
    /\ readers' = readers \ {w}
    /\ LET query == Join(segments[w], Slash)
           v == Lookup(query)
           nxt == LoopStep(segments[w], discard[w])
       IN /\ tried' = [tried EXCEPT ![w] =
                          Append(@, [key |-> query, gen |-> cv, hit |-> v # NilURL])]
          /\ IF v # NilURL
             THEN /\ got' = [got EXCEPT ![w] = v]
                  /\ pc' = [pc EXCEPT ![w] = "PrepPath"]
                  /\ UNCHANGED <<segments, discard, resp>>
             ELSE /\ segments' = [segments EXCEPT ![w] = nxt.segments]
                  /\ discard' = [discard EXCEPT ![w] = nxt.discard]
                  /\ got' = got
                  /\ IF nxt.panic
                     THEN /\ pc' = [pc EXCEPT ![w] = "idle"]
                          /\ resp' = [resp EXCEPT ![w] = RespondPanic(@)]
                     ELSE IF Len(nxt.segments) > 0
                     THEN /\ pc' = [pc EXCEPT ![w] = "Lock"]
                          /\ resp' = resp
                     ELSE /\ pc' = [pc EXCEPT ![w] = "idle"]
                          /\ resp' = [resp EXCEPT ![w] = RespondNotFound(@)]
    /\ UNCHANGED <<now, alive, config, cacheVars, writer, req, served, rinfo>>

\* the heap with the object behind ptr replaced by u
Store(ptr, u) == [heap EXCEPT ![ptr.g][ptr.k] = u]

\* prepRedirect, lines 197-203, on the shared object
PrepPath(w) ==
    /\ alive
    /\ pc[w] = "PrepPath"
    /\ LET addPath == Join(discard[w], Slash)
       IN heap' = Store(got[w], PrepAddPath(PrepSlashPath(Deref(got[w]), addPath), addPath))
    /\ pc' = [pc EXCEPT ![w] = "PrepQuery"]
    /\ UNCHANGED <<now, alive, config, cv, lastUpdate, built, input, lockVars,
                   localVars, served, rinfo>>

\* prepRedirect, lines 205-209
PrepQuery(w) ==
    /\ alive
    /\ pc[w] = "PrepQuery"
    /\ heap' = Store(got[w], PrepRawQuery(Deref(got[w]), ParseQuery(req[w].rawQuery)))
    /\ pc' = [pc EXCEPT ![w] = "Redirect"]
    /\ UNCHANGED <<now, alive, config, cv, lastUpdate, built, input, lockVars,
                   localVars, served, rinfo>>

\* server.redirect: http.Redirect to redirTo.String()
Redirect(w) ==
    /\ alive
    /\ pc[w] = "Redirect"
    /\ resp' = [resp EXCEPT ![w] = RespondRedirect(@, Deref(got[w]))]
    /\ pc' = [pc EXCEPT ![w] = "idle"]
    /\ UNCHANGED <<now, alive, config, cacheVars, lockVars, req, segments, discard,
                   got, tried, served, rinfo>>

Next ==
    \E w \in Workers :
        \/ \E r \in Requests : StartRequest(w, r)
        \/ \E d \in Elapsed : RefreshFresh(w, d)
        \/ \E d \in Elapsed : RefreshStale(w, d)
        \/ QueryError(w)
        \/ QueryFatal(w)
        \/ \E rows \in Sheets, d \in Elapsed : QueryRows(w, rows, d)
        \/ GetRLock(w)
        \/ GetRead(w)
        \/ PrepPath(w)
        \/ PrepQuery(w)
        \/ Redirect(w)

Spec == Init /\ [][Next]_vars

\* ------------------------------------------- the row transformation alone
\* the cells and rows a table is drawn from
ShortcutCells == {Str(<<"a">>), Str(<<"A">>), Str(<<"b">>), Str(<<>>), Other}
DestCells ==
    {Str(<<"H">>), Str(<<"H", "/", "x">>), Str(<<"%">>), Str(<<>>), Other}
RowSet ==
    {<<k, v>> : k \in ShortcutCells, v \in DestCells}
    \cup { <<>>, <<Str(<<"a">>)>>,
           <<Str(<<"a">>), Str(<<"H", "/", "x">>), Str(<<"b">>)>> }
RowSeqs == UNION {[1..n -> RowSet] : n \in 0..MaxRows}

\* the first request after startup
FirstRequest == [path |-> <<"/", "a">>, rawQuery |-> <<>>]

\* the provider is configured and holds any table of RowSeqs
InitRows ==
    /\ Constructed
    /\ QueryErr(config) = ""
    /\ input \in RowSeqs

\* the first request refreshes the cache from that table
NextRows ==
    \/ StartRequest(1, FirstRequest)
    \/ RefreshStale(1, 0)
    \/ QueryRows(1, input, 0)

SpecRows == InitRows /\ [][NextRows]_vars


\* ------------------------------------------------- the claims' vocabulary
\* worker w has answered its request
Done(w) == pc[w] = "idle" /\ resp[w] # NoResponse

\* worker w has answered its request with a redirect
Matched(w) == Done(w) /\ resp[w].status = StatusMovedPermanently

\* the segments of w's request path
ReqSegments(w) == Split(TrimPrefix(req[w].path, <<Slash>>), Slash)

\* the number of segments of the shortcut w matched
MatchedLen(w) == Len(Split(got[w].k, Slash))

\* the destination w matched, as the refresh built it
BuiltDest(w) == built[got[w].g][got[w].k]

\* the URL a client reads from the Location header
Location(w) == ParseURL(resp[w].location).u

\* path with suffix appended, one "/" between them
WithSuffix(path, suffix) ==
    IF suffix = <<>> THEN path
    ELSE IF HasSuffix(path, <<Slash>>) THEN path \o suffix
    ELSE path \o <<Slash>> \o suffix

\* C1: a redirect for a path s1..sn matched at s1..sk, k < n, carries the
\* destination's path with s(k+1)..sn appended, joined by "/", in order
C1_UnmatchedSuffixAppended ==
    \A w \in Workers :
        (Matched(w) /\ MatchedLen(w) < Len(ReqSegments(w))) =>
            Location(w).Path =
                WithSuffix(BuiltDest(w).Path,
                           Join(SubSeq(ReqSegments(w), MatchedLen(w) + 1,
                                       Len(ReqSegments(w))), Slash))

\* every prefix of w's request path was looked up and none was a shortcut
AllMissed(w) ==
    /\ Len(tried[w]) = Len(ReqSegments(w))
    /\ \A i \in 1..Len(tried[w]) : ~tried[w][i].hit

\* C2: a request none of whose prefixes is a shortcut, with the provider not
\* failing, ends normally in "no match": a 404 and no abort
C2_NoMatchIsNotFound ==
    \A w \in Workers :
        (Done(w) /\ AllMissed(w) /\ rinfo[w] \in {"noop", "ok"}) =>
            (~resp[w].aborted /\ resp[w].status = StatusNotFound)

\* the values of key k in vals, none if absent
ValuesOf(vals, k) == IF k \in DOMAIN vals THEN vals[k] ELSE <<>>

\* C3: the query of a redirect holds, for every key, the values the
\* destination had followed by all the values of the request
C3_QueryMerged ==
    \A w \in Workers :
        Matched(w) =>
            LET reqQ == ParseQuery(req[w].rawQuery)
                baseQ == URLQuery(BuiltDest(w))
                outQ == URLQuery(Location(w))
            IN \A k \in DOMAIN reqQ \cup DOMAIN baseQ \cup DOMAIN outQ :
                   ValuesOf(outQ, k) = ValuesOf(baseQ, k) \o ValuesOf(reqQ, k)

\* C4: the lookups of a request are its prefixes in strictly decreasing
\* length, only the last may hit, the destination used is the one found by
\* that hit, and against one version of the mapping it is the longest prefix
\* that is a shortcut
C4_LongestPrefix ==
    \A w \in Workers :
        LET segs == ReqSegments(w)
            n == Len(segs)
            t == tried[w]
        IN /\ Len(t) <= n
           /\ \A i \in 1..Len(t) :
                 /\ t[i].key = Join(SubSeq(segs, 1, n - i + 1), Slash)
                 /\ (i < Len(t) => ~t[i].hit)
           /\ (got[w] # NilURL) =>
                 /\ Len(t) > 0
                 /\ t[Len(t)].hit
                 /\ got[w] = [g |-> t[Len(t)].gen, k |-> t[Len(t)].key]
                 /\ (\A i \in 1..Len(t) : t[i].gen = got[w].g) =>
                       \A j \in 1..n :
                          Join(SubSeq(segs, 1, j), Slash) \in DOMAIN built[got[w].g]
                              => j <= MatchedLen(w)
           /\ (got[w] = NilURL /\ Len(t) > 0) => ~t[Len(t)].hit

\* C4 happens: a redirect found at the second lookup, with a shorter prefix
\* being a shortcut too
C4_Witness ==
    \E w \in Workers :
        /\ Matched(w)
        /\ Len(tried[w]) = 2
        /\ got[w].k = <<"a", "/", "b">>
        /\ <<"a">> \in DOMAIN built[got[w].g]


\* the provider query of w's last Refresh failed
QueryFailed(w) == rinfo[w] \in {"error", "exit"}

\* C5: once a refresh has populated the cache, a Get whose provider query
\* fails still goes on to serve the cached mapping: the process lives and the
\* request is not answered with the error
C5_StaleServedOnFailure ==
    \A w \in Workers :
        (cv > 0 /\ QueryFailed(w)) =>
            (alive /\ resp[w].status # StatusInternalServerError)

\* C6: a Refresh whose check falls within the TTL of the last successful
\* refresh makes no provider query and changes nothing, a Refresh whose check
\* falls after it makes one, and two successful provider queries are more
\* than the TTL apart
C6_OneQueryPerWindow ==
    [][ /\ \A w \in Workers :
            /\ (pc[w] = "Lock" /\ pc'[w] = "RLock") =>
                  /\ lastUpdate # ZeroTime
                  /\ now' - lastUpdate <= TTL
                  /\ UNCHANGED cacheVars
            /\ (pc[w] = "Lock" /\ pc'[w] = "Query") =>
                  (lastUpdate = ZeroTime \/ now' - lastUpdate > TTL)
        /\ (lastUpdate' # lastUpdate /\ lastUpdate # ZeroTime) =>
              lastUpdate' - lastUpdate > TTL
      ]_vars

\* C6 happens: a second refresh was made after the TTL ended, and a Refresh
\* within the TTL made no provider query
C6_Witness ==
    /\ Len(heap) >= 2
    /\ \E w \in Workers : rinfo[w] = "noop" /\ pc[w] = "RLock"

\* C7: a provider query that fails makes Refresh return the error to its
\* caller, with the stored mapping and lastUpdate as they were
C7_FailureReturnsError ==
    [][ \A w \in Workers :
            (rinfo[w] = "pending" /\ QueryFailed(w)') =>
                /\ rinfo'[w] = "error"
                /\ alive'
                /\ UNCHANGED <<heap, cv, lastUpdate>>
      ]_vars

\* the part of C7 the code keeps: an error that Query returns leaves the
\* stored mapping and lastUpdate as they were, and the process running
C7_ReturnedErrorLeavesCache ==
    [][ \A w \in Workers :
            (rinfo[w] = "pending" /\ rinfo'[w] = "error") =>
                (alive' /\ UNCHANGED <<heap, cv, lastUpdate>>)
      ]_vars

\* C8: at most one worker is inside a refresh's provider query, and it holds
\* the write lock
C8_OneRefresh ==
    /\ Cardinality({w \in Workers : pc[w] = "Query"}) <= 1
    /\ \A w \in Workers : pc[w] = "Query" => writer = w

\* C8 happens: one worker queries the provider while another waits to refresh
C8_Witness ==
    \E w, o \in Workers : pc[w] = "Query" /\ pc[o] = "Lock"

\* C9: no worker reads the stored mapping while a refresh is in progress
C9_NoReadDuringRefresh ==
    /\ readers = {w \in Workers : pc[w] = "Read"}
    /\ readers # {} => (writer = 0 /\ \A o \in Workers : pc[o] # "Query")

\* C9 happens: a worker reads the mapping while another is about to refresh
\* a mapping that will be stale when the clock reaches the end of the TTL
C9_Witness ==
    \E w, o \in Workers :
        /\ pc[w] = "Read"
        /\ pc[o] = "Lock"
        /\ \E d \in Elapsed : ~WithinTTL(Since(lastUpdate, now + d))

\* C10: the stored mappings stay as the refreshes built them
C10_MappingImmutable ==
    \A g \in 1..Len(heap) : heap[g] = built[g]


\* C11: two resolutions of the same request that matched the same stored
\* destination, with no refresh between them, return the same URL
C11_ResolutionStateless ==
    \A w, o \in Workers :
        (Matched(w) /\ Matched(o) /\ req[w] = req[o] /\ got[w] = got[o]) =>
            resp[w].location = resp[o].location

\* C12: an answered request carries exactly one of the three responses, the
\* one of its outcome: 301 with a Location for a match, 404 "shortcut not
\* found" for no match, 500 with the error alone for a provider error
C12_OneResponse ==
    \A w \in Workers :
        Done(w) =>
            /\ ~resp[w].aborted
            /\ \/ /\ got[w] # NilURL
                  /\ rinfo[w] # "error"
                  /\ resp[w].status = StatusMovedPermanently
                  /\ resp[w].location # <<>>
                  /\ resp[w].body = <<"Moved Permanently">>
               \/ /\ AllMissed(w)
                  /\ rinfo[w] # "error"
                  /\ resp[w].status = StatusNotFound
                  /\ resp[w].location = <<>>
                  /\ resp[w].body = <<"shortcut not found">>
               \/ /\ rinfo[w] = "error"
                  /\ resp[w].status = StatusInternalServerError
                  /\ resp[w].location = <<>>
                  /\ resp[w].body = <<"failed to find redirect">>

\* C13: the process never ends on a request's error: a failed provider query
\* comes back as an error value and is answered, and the service goes on
C13_NeverTerminates ==
    /\ alive
    /\ \A w \in Workers :
           QueryFailed(w) =>
               (rinfo[w] = "error" /\ Done(w)
                /\ resp[w].status = StatusInternalServerError)

\* C14: a request whose path, in lower case, is a shortcut of the mapping
\* its first lookup read is redirected to that shortcut's destination
C14_CaseInsensitive ==
    \A w \in Workers :
        (/\ Done(w)
         /\ Len(tried[w]) >= 1
         /\ tried[w][1].gen >= 1
         /\ ToLower(tried[w][1].key) \in DOMAIN built[tried[w][1].gen]) =>
            /\ Matched(w)
            /\ got[w] = [g |-> tried[w][1].gen, k |-> ToLower(tried[w][1].key)]


\* a row that passes urlMap's checks: two columns or more, a non-empty string
\* shortcut, a non-empty string destination that parses
ValidRow(row) ==
    /\ Len(row) >= 2
    /\ row[1].t = "string" /\ row[1].s # <<>>
    /\ row[2].t = "string" /\ row[2].s # <<>>
    /\ ParseURL(row[2].s).ok

\* the indices of the valid rows of in whose shortcut is k ignoring case
RowsOf(in, k) == {i \in 1..Len(in) : ValidRow(in[i]) /\ ToLower(in[i][1].s) = k}

\* the lowercased shortcuts of the valid rows of in
ValidKeys(in) == {ToLower(in[i][1].s) : i \in {j \in 1..Len(in) : ValidRow(in[j])}}

\* the largest element of a non-empty set of numbers
Max(S) == CHOOSE i \in S : \A j \in S : j <= i

\* the mapping stored last and the rows it was built from
StoredMap == built[Len(built)]

\* C15: for a shortcut that rows of the table share ignoring case, the
\* mapping holds the destination of the last of them in provider order
\* (rows that urlMap skips define no destination)
C15_LastRowWins ==
    Len(built) >= 1 =>
        \A k \in ValidKeys(input) :
            /\ k \in DOMAIN StoredMap
            /\ StoredMap[k] = ParseURL(input[Max(RowsOf(input, k))][2].s).u

\* C15 happens: two rows, one shortcut in two cases, two destinations
C15_Witness ==
    /\ Len(built) >= 1
    /\ \E k \in ValidKeys(input) :
          \E i, j \in RowsOf(input, k) :
              /\ i < j
              /\ input[i][1].s # input[j][1].s
              /\ input[i][2].s # input[j][2].s

\* C16: the transformation always completes the refresh, and the keys of the
\* mapping are exactly the lowercased shortcuts of the valid rows, each
\* mapped to the parsed destination of one of its rows
C16_ValidRowsOnly ==
    /\ \A w \in Workers :
          pc[w] = "RLock" => (rinfo[w] = "ok" /\ cv = Len(built) /\ cv >= 1)
    /\ Len(built) >= 1 =>
          /\ DOMAIN StoredMap = ValidKeys(input)
          /\ \A k \in DOMAIN StoredMap :
                \E i \in RowsOf(input, k) : StoredMap[k] = ParseURL(input[i][2].s).u

\* C16 happens: a table with a row that is skipped and a row that is kept
C16_Witness ==
    /\ Len(built) >= 1
    /\ \E i, j \in 1..Len(input) : ValidRow(input[i]) /\ ~ValidRow(input[j])
    /\ \E w \in Workers : pc[w] = "RLock"


\* C17: a Get reads the mapping only after a provider query has stored one:
\* no worker is at its read, and no lookup was made, with the map still the
\* nil map of construction
C17_QueryBeforeFirstRead ==
    \A w \in Workers :
        /\ pc[w] \in {"RLock", "Read"} => (cv >= 1 /\ lastUpdate # ZeroTime)
        /\ \A i \in 1..Len(tried[w]) : tried[w][i].gen >= 1

\* C17 happens: the first request after startup has made its first lookup
C17_Witness ==
    /\ served = 1
    /\ \E w \in Workers : Len(tried[w]) = 1 /\ tried[w][1].gen = 1

\* C18: prepRedirect leaves the path of its base as it is for an empty
\* suffix, appends the suffix directly to a path that ends in "/", and
\* appends "/" and the suffix to any other path
C18_OneSeparator ==
    [][ \A w \in Workers :
            (pc[w] = "PrepPath" /\ pc'[w] = "PrepQuery") =>
                LET base == Deref(got[w]).Path
                    suffix == Join(discard[w], Slash)
                    result == heap'[got[w].g][got[w].k].Path
                IN /\ suffix = <<>> => result = base
                   /\ (suffix # <<>> /\ HasSuffix(base, <<Slash>>)) =>
                         result = base \o suffix
                   /\ (suffix # <<>> /\ ~HasSuffix(base, <<Slash>>)) =>
                         result = base \o <<Slash>> \o suffix
      ]_vars

\* C18 happens: a suffix was appended to a path that needed the separator,
\* and a request that was a shortcut in full kept the destination's path
C18_Witness ==
    /\ \E w \in Workers :
          /\ pc[w] = "PrepQuery" /\ discard[w] # <<>>
          /\ ~HasSuffix(BuiltDest(w).Path, <<Slash>>)
          /\ Deref(got[w]).Path =
                BuiltDest(w).Path \o <<Slash>> \o Join(discard[w], Slash)
    /\ \E w \in Workers :
          /\ Matched(w) /\ discard[w] = <<>>
          /\ Location(w).Path = BuiltDest(w).Path

\* C19: when the refresh check of a Get ends without error, the mapping in
\* the cache was stored by a provider query at most TTL before that instant
C19_TTLBoundsStaleness ==
    [][ \A w \in Workers :
            (pc[w] \in {"Lock", "Query"} /\ pc'[w] = "RLock") =>
                /\ cv' >= 1 /\ cv' = Len(built')
                /\ lastUpdate' # ZeroTime
                /\ now' - lastUpdate' >= 0
                /\ now' - lastUpdate' <= TTL
      ]_vars

\* C19 happens: a refresh check passed without a query exactly TTL after
\* the mapping was stored
C19_Witness ==
    \E w \in Workers :
        /\ rinfo[w] = "noop" /\ pc[w] = "RLock"
        /\ now - lastUpdate = TTL

\* C20: the match of a request is the longest-prefix match of one mapping
\* that was in the cache during its lookups: against that one version every
\* prefix that missed is absent and the prefix that hit has the destination
\* that was used
C20_SingleVersion ==
    \A w \in Workers :
        (Len(tried[w]) >= 1 /\ got[w] # NilURL) =>
            \E g \in tried[w][1].gen .. tried[w][Len(tried[w])].gen :
                /\ \A i \in 1..Len(tried[w]) :
                      tried[w][i].hit <=> tried[w][i].key \in DOMAIN built[g]
                /\ built[g][got[w].k] = BuiltDest(w)

\* the part of C20 the code keeps: each lookup is answered by the version in
\* the cache at that lookup, and the versions of one request never go back
C20_PerLookupVersion ==
    \A w \in Workers :
        \A i \in 1..Len(tried[w]) :
            /\ tried[w][i].gen \in 1..Len(built)
            /\ tried[w][i].hit <=> tried[w][i].key \in DOMAIN built[tried[w][i].gen]
            /\ i > 1 => tried[w][i - 1].gen <= tried[w][i].gen

====
